---- MODULE Spec2Model ----
(***************************************************************************)
(* The JOS kernel monitor (kern/monitor.c): the read-eval-print loop, the  *)
(* in-place tokenizer and dispatcher of runcmd, the three page commands    *)
(* and the frame-pointer backtrace.                                        *)
(*                                                                         *)
(* A C string is a sequence of one-character strings; a pointer into the   *)
(* command buffer is a 1-based index into it, 0 is the null pointer, and   *)
(* a read at or past the end of the buffer yields the terminator NUL.      *)
(* A pointer into the stack is a word address, and 0 is the null pointer.   *)
(***************************************************************************)
EXTENDS Integers, Sequences, FiniteSets, TLC

VARIABLES
    pc,             \* where monitor() is: "read", "run", "dump_stack", "dump_symbols", "ret", "panic", "exit"
    buf,            \* monitor's buf: the line readline returned, edited in place by runcmd
    line,           \* the line as readline returned it (before runcmd edits buf)
    argc,           \* runcmd's argc at the time it returned or called the handler
    argv,           \* runcmd's argv[0..argc]: pointers into buf, the last one null
    lookups,        \* number of strcmp calls runcmd made against the registry
    called,         \* the handler runcmd invoked for this line, "none" if none
    out,            \* what the console printed while running this line
    ret,            \* the value runcmd returned
    pp_ref,         \* pages[i].pp_ref, the reference count of every physical page
    page_free_list, \* the allocator's free pages
    pre_ref,        \* pp_ref as it was when runcmd was entered for this line
    pre_free,       \* page_free_list as it was when runcmd was entered for this line
    last,           \* summary of the previous line's page command
    stack,          \* the kernel stack memory, by word address
    ebp,            \* the frame pointer read_ebp() yields inside mon_backtrace
    p,              \* mon_backtrace's p
    info,           \* the static struct Eipdebuginfo info
    dumped,         \* frames printed by the dump_stack pass of this backtrace
    symbols,        \* frames and symbols printed by the dump_backstrace_symbols pass
    nprinted        \* frames printed so far by this backtrace, modulo NFrames + 2

vars == <<pc, buf, line, argc, argv, lookups, called, out, ret, pp_ref,
          page_free_list, pre_ref, pre_free, last, stack, ebp, p, info, dumped, symbols,
          nprinted>>

(***************************************************************************)
(* Bounds of the model.                                                    *)
(***************************************************************************)
NPages == 2         \* number of physical pages the allocator manages (npage)
MaxRef == 2         \* largest reference count a page starts with
MaxLineLen == 3     \* length of the exhaustively enumerated input lines
MaxTokens == 17     \* most tokens on a generated many-token line
NFrames == 3        \* number of frame records in the stack memory

(***************************************************************************)
(* Characters and C strings.                                               *)
(***************************************************************************)
NUL == ""
NULL == <<"NULL">>          \* readline's null return; no line has this shape

\* WHITESPACE without the carriage return
WHITESPACE_NoCR == <<"\t", "\n", " ">>

WHITESPACE == <<"\t", "\r", "\n", " ">>

\* strchr(s, c) != 0 for the JOS strchr, which never matches the terminator
strchr(s, c) == \E i \in 1..Len(s) : s[i] = c

\* *b for a pointer b into a NUL-terminated buffer
Deref(b, i) == IF i >= 1 /\ i <= Len(b) THEN b[i] ELSE NUL

RECURSIVE StrEnd(_, _)
\* index of the terminator of the C string starting at i
StrEnd(b, i) == IF Deref(b, i) = NUL THEN i ELSE StrEnd(b, i + 1)

\* the C string a pointer i into b points to
CStr(b, i) == SubSeq(b, i, StrEnd(b, i) - 1)

\* a comparison that stops at the end of b: strncmp(a, b, strlen(b)) == 0
strcmp_eq_Prefix(a, b) == Len(a) >= Len(b) /\ SubSeq(a, 1, Len(b)) = b

\* strcmp(a, b) == 0
strcmp_eq(a, b) == a = b

MAXARGS == 16

(***************************************************************************)
(* runcmd, lines 209-228: the tokenizer.                                   *)
(***************************************************************************)
\* the gobble loop as an if: one whitespace character is consumed
Gobble_Once(b, i) ==
    IF Deref(b, i) # NUL /\ strchr(WHITESPACE, Deref(b, i))
    THEN [buf |-> [b EXCEPT ![i] = NUL], pos |-> i + 1]
    ELSE [buf |-> b, pos |-> i]

RECURSIVE Gobble(_, _)
\* while (*buf && strchr(WHITESPACE, *buf)) *buf++ = 0;
Gobble(b, i) ==
    IF Deref(b, i) # NUL /\ strchr(WHITESPACE, Deref(b, i))
    THEN Gobble([b EXCEPT ![i] = NUL], i + 1)
    ELSE [buf |-> b, pos |-> i]

RECURSIVE ScanArg(_, _)
\* while (*buf && !strchr(WHITESPACE, *buf)) buf++;
ScanArg(b, i) ==
    IF Deref(b, i) # NUL /\ ~strchr(WHITESPACE, Deref(b, i))
    THEN ScanArg(b, i + 1)
    ELSE i

\* the limit test at argc == MAXARGS, which leaves no slot for the null
ArgLimitHit_AtMax(n) == n = MAXARGS

\* the limit test letting MAXARGS + 1 arguments through
ArgLimitHit_Late(n) == n = MAXARGS + 1

\* the test that aborts the parse before argv[argc++] = buf
ArgLimitHit(n) == n = MAXARGS - 1

RECURSIVE ParseLoop(_, _, _, _)
\* the while (1) loop; av holds argv[0..n-1]
ParseLoop(b, i, n, av) ==
    LET g == Gobble(b, i) IN
    IF Deref(g.buf, g.pos) = NUL
    THEN [toomany |-> FALSE, buf |-> g.buf, argc |-> n, argv |-> Append(av, 0)]
    ELSE IF ArgLimitHit(n)
    THEN [toomany |-> TRUE, buf |-> g.buf, argc |-> n, argv |-> av]
    ELSE ParseLoop(g.buf, ScanArg(g.buf, g.pos), n + 1, Append(av, g.pos))

\* argc = 0; argv[argc] = 0; then the loop over the whole buffer
Parse(b) == ParseLoop(b, 1, 0, <<>>)

(***************************************************************************)
(* The physical page allocator and the library routines the handlers call. *)
(***************************************************************************)
PGSIZE == 4096

Pages == 0..(NPages - 1)                \* indices into pages[]

\* page2pa(pp): the physical address of a page descriptor
page2pa(pp) == pp * PGSIZE

\* PPN(pa) < npage: pa2page finds a descriptor (it panics otherwise).  pa is
\* the long strtol returned; a negative long converts to a uint32_t of at
\* least 2^31, whose page number is beyond every managed page
pa_valid(pa) == pa >= 0 /\ pa \div PGSIZE < NPages

\* pa2page(pa) for a valid pa: &pages[PPN(pa)]
pa2page(pa) == pa \div PGSIZE

DigitChars == <<"0", "1", "2", "3", "4", "5", "6", "7", "8", "9">>
LowerChars == <<"a", "b", "c", "d", "e", "f", "g", "h", "i", "j", "k", "l", "m",
                "n", "o", "p", "q", "r", "s", "t", "u", "v", "w", "x", "y", "z">>
UpperChars == <<"A", "B", "C", "D", "E", "F", "G", "H", "I", "J", "K", "L", "M",
                "N", "O", "P", "Q", "R", "S", "T", "U", "V", "W", "X", "Y", "Z">>

IndexOf(s, c) == CHOOSE i \in 1..Len(s) : s[i] = c

\* the value strtol gives a digit character, 99 for a character that is no digit
DigitVal(c) ==
    IF strchr(DigitChars, c) THEN IndexOf(DigitChars, c) - 1
    ELSE IF strchr(LowerChars, c) THEN IndexOf(LowerChars, c) + 9
    ELSE IF strchr(UpperChars, c) THEN IndexOf(UpperChars, c) + 9
    ELSE 99

RECURSIVE strtol_digits(_, _, _, _)
\* the digit loop of strtol: val = val * base + dig.  The numerals of the
\* model have at most six digits, so the 32-bit long never overflows
strtol_digits(s, i, base, val) ==
    IF Deref(s, i) # NUL /\ DigitVal(Deref(s, i)) < base
    THEN strtol_digits(s, i + 1, base, val * base + DigitVal(Deref(s, i)))
    ELSE val

RECURSIVE strtol_skip(_, _)
\* strtol's leading blanks: spaces and tabs
strtol_skip(s, i) ==
    IF Deref(s, i) = " " \/ Deref(s, i) = "\t" THEN strtol_skip(s, i + 1) ELSE i

\* strtol(s, 0, 0): optional sign, "0x" for hexadecimal, a leading
\* "0" for octal, decimal otherwise; the digits that parse, 0 if none does
strtol(s) ==
    LET i0 == strtol_skip(s, 1)
        neg == Deref(s, i0) = "-"
        i1 == IF Deref(s, i0) = "+" \/ neg THEN i0 + 1 ELSE i0
        hex == Deref(s, i1) = "0" /\ Deref(s, i1 + 1) = "x"
        oct == ~hex /\ Deref(s, i1) = "0"
        base == IF hex THEN 16 ELSE IF oct THEN 8 ELSE 10
        i2 == IF hex THEN i1 + 2 ELSE IF oct THEN i1 + 1 ELSE i1
        val == strtol_digits(s, i2, base, 0)
    IN  IF neg THEN 0 - val ELSE val

RECURSIVE HexDigits(_)
\* the digits cprintf's %x prints for n: lower case, no leading zeros
HexDigits(n) ==
    LET d == IF n % 16 < 10 THEN DigitChars[(n % 16) + 1] ELSE LowerChars[(n % 16) - 9]
    IN  IF n < 16 THEN <<d>> ELSE Append(HexDigits(n \div 16), d)

RECURSIVE DecDigits(_)
\* the digits cprintf's %d prints for n >= 0
DecDigits(n) ==
    IF n < 10 THEN <<DigitChars[n + 1]>>
    ELSE Append(DecDigits(n \div 10), DigitChars[(n % 10) + 1])

(***************************************************************************)
(* The command registry, lines 24-32.                                      *)
(***************************************************************************)
S_help == <<"h", "e", "l", "p">>
S_kerninfo == <<"k", "e", "r", "n", "i", "n", "f", "o">>
S_alloc_page == <<"a", "l", "l", "o", "c", "_", "p", "a", "g", "e">>
S_page_status == <<"p", "a", "g", "e", "_", "s", "t", "a", "t", "u", "s">>
S_free_page == <<"f", "r", "e", "e", "_", "p", "a", "g", "e">>
S_backtrace == <<"b", "a", "c", "k", "t", "r", "a", "c", "e">>

commands == <<
    [name |-> S_help, desc |-> "Display this list of commands", func |-> "mon_help"],
    [name |-> S_kerninfo, desc |-> "Display information about the kernel", func |-> "mon_kerninfo"],
    [name |-> S_alloc_page, desc |-> "Display the address of allocated page", func |-> "mon_alloc_page"],
    [name |-> S_page_status, desc |-> "Display the status of the page", func |-> "mon_page_status"],
    [name |-> S_free_page, desc |-> "Free the page, successfully or not", func |-> "mon_free_page"],
    [name |-> S_backtrace, desc |-> "Backtrace the function call", func |-> "mon_backtrace"] >>

NCOMMANDS == Len(commands)

\* one cprintf call: which message, and the text of its conversion
Msg(kind, text) == [kind |-> kind, text |-> text]

(***************************************************************************)
(* The handlers.  Each is the whole C function: it decides what is         *)
(* printed, the page state, the backtrace state, and where control goes.   *)
(***************************************************************************)
PagesUnchanged == pp_ref' = pp_ref /\ page_free_list' = page_free_list
BacktraceUnchanged == UNCHANGED <<p, info, dumped, symbols, nprinted>>

\* the handler prints o and returns r to runcmd, which returns it to monitor
Returns(o, r) == out' = o /\ ret' = r /\ pc' = "ret"

\* panic(): prints, then runs monitor(NULL) for ever; the handler never returns
Panics(o) == out' = o /\ ret' = ret /\ pc' = "panic"

\* page_decref(pp): if (--pp->pp_ref == 0) page_free(pp); pp_ref is a uint16_t
page_decref(pp) ==
    /\ pp_ref' = [pp_ref EXCEPT ![pp] = (@ + 65535) % 65536]
    /\ page_free_list' = IF (pp_ref[pp] + 65535) % 65536 = 0
                         THEN page_free_list \cup {pp}
                         ELSE page_free_list

\* lines 37-44
mon_help(n, a) ==
    /\ Returns([i \in 1..NCOMMANDS |-> Msg("%s - %s", commands[i].name)], 0)
    /\ PagesUnchanged /\ BacktraceUnchanged

\* lines 47-60
mon_kerninfo(n, a) ==
    /\ Returns(<<Msg("Special kernel symbols:", <<>>), Msg("_start", <<>>),
                 Msg("entry", <<>>), Msg("etext", <<>>), Msg("edata", <<>>),
                 Msg("end", <<>>), Msg("Kernel executable memory footprint", <<>>)>>, 0)
    /\ PagesUnchanged /\ BacktraceUnchanged

\* mon_alloc_page without the pp->pp_ref++ of line 69
mon_alloc_page_NoIncrement(n, a) ==
    /\ IF page_free_list # {}
       THEN \E pp \in page_free_list :
                /\ page_free_list' = page_free_list \ {pp}
                /\ pp_ref' = pp_ref
                /\ Returns(<<Msg("0x%x", HexDigits(page2pa(pp)))>>, 0)
       ELSE /\ PagesUnchanged
            /\ Returns(<<Msg("Page allocation failed", <<>>)>>, 0)
    /\ BacktraceUnchanged

\* mon_alloc_page with the pp->pp_ref++ after the if, so that it also runs
\* when page_alloc failed (on whatever pp holds, here page 0)
mon_alloc_page_IncrementAlways(n, a) ==
    /\ IF page_free_list # {}
       THEN \E pp \in page_free_list :
                /\ page_free_list' = page_free_list \ {pp}
                /\ pp_ref' = [pp_ref EXCEPT ![pp] = (@ + 1) % 65536]
                /\ Returns(<<Msg("0x%x", HexDigits(page2pa(pp)))>>, 0)
       ELSE /\ page_free_list' = page_free_list
            /\ pp_ref' = [pp_ref EXCEPT ![0] = (@ + 1) % 65536]
            /\ Returns(<<Msg("Page allocation failed", <<>>)>>, 0)
    /\ BacktraceUnchanged

\* lines 63-77; page_alloc(&pp) takes a page off the free list, any of them,
\* and fails when the list is empty
mon_alloc_page(n, a) ==
    /\ IF page_free_list # {}
       THEN \E pp \in page_free_list :
                /\ page_free_list' = page_free_list \ {pp}
                /\ pp_ref' = [pp_ref EXCEPT ![pp] = (@ + 1) % 65536]
                /\ Returns(<<Msg("0x%x", HexDigits(page2pa(pp)))>>, 0)
       ELSE /\ PagesUnchanged
            /\ Returns(<<Msg("Page allocation failed", <<>>)>>, 0)
    /\ BacktraceUnchanged

\* mon_page_status with line 92 testing pp_ref > 1
mon_page_status_OffByOne(n, a) ==
    /\ IF n # 2
       THEN Returns(<<Msg("Usage: page status [ADDR]", <<>>),
                      Msg("Address must be aligned in 4KB", <<>>)>>, 0)
       ELSE LET pa == strtol(a[2]) IN
            IF ~pa_valid(pa)
            THEN Panics(<<Msg("pa2page called with invalid pa", <<>>)>>)
            ELSE IF pp_ref[pa2page(pa)] > 1
            THEN Returns(<<Msg("Allocated", <<>>)>>, 0)
            ELSE Returns(<<Msg("free", <<>>)>>, 0)
    /\ PagesUnchanged /\ BacktraceUnchanged

\* lines 79-102
mon_page_status(n, a) ==
    /\ IF n # 2
       THEN Returns(<<Msg("Usage: page status [ADDR]", <<>>),
                      Msg("Address must be aligned in 4KB", <<>>)>>, 0)
       ELSE LET pa == strtol(a[2]) IN
            IF ~pa_valid(pa)
            THEN Panics(<<Msg("pa2page called with invalid pa", <<>>)>>)
            ELSE IF pp_ref[pa2page(pa)] > 0
            THEN Returns(<<Msg("Allocated", <<>>)>>, 0)
            ELSE Returns(<<Msg("free", <<>>)>>, 0)
    /\ PagesUnchanged /\ BacktraceUnchanged

\* mon_free_page with line 118 testing pp_ref <= 1
mon_free_page_AtMostOne(n, a) ==
    /\ IF n # 2
       THEN /\ Returns(<<Msg("Usage: free page [ADDR]", <<>>),
                         Msg("Address must be aligned in 4KB", <<>>),
                         Msg("Please make sure that the page is currently mounted 1 time", <<>>)>>, 0)
            /\ PagesUnchanged
       ELSE LET pa == strtol(a[2]) IN
            IF ~pa_valid(pa)
            THEN Panics(<<Msg("pa2page called with invalid pa", <<>>)>>) /\ PagesUnchanged
            ELSE IF pp_ref[pa2page(pa)] <= 1
            THEN page_decref(pa2page(pa)) /\ Returns(<<Msg("Page freed successfully!", <<>>)>>, 0)
            ELSE PagesUnchanged /\ Returns(<<Msg("failed", <<>>)>>, 0)
    /\ BacktraceUnchanged

\* mon_free_page with line 118 testing pp_ref >= 1
mon_free_page_AnyHolder(n, a) ==
    /\ IF n # 2
       THEN /\ Returns(<<Msg("Usage: free page [ADDR]", <<>>),
                         Msg("Address must be aligned in 4KB", <<>>),
                         Msg("Please make sure that the page is currently mounted 1 time", <<>>)>>, 0)
            /\ PagesUnchanged
       ELSE LET pa == strtol(a[2]) IN
            IF ~pa_valid(pa)
            THEN Panics(<<Msg("pa2page called with invalid pa", <<>>)>>) /\ PagesUnchanged
            ELSE IF pp_ref[pa2page(pa)] >= 1
            THEN page_decref(pa2page(pa)) /\ Returns(<<Msg("Page freed successfully!", <<>>)>>, 0)
            ELSE PagesUnchanged /\ Returns(<<Msg("failed", <<>>)>>, 0)
    /\ BacktraceUnchanged

\* mon_free_page without the page_decref of line 120
mon_free_page_NoDecref(n, a) ==
    /\ IF n # 2
       THEN /\ Returns(<<Msg("Usage: free page [ADDR]", <<>>),
                         Msg("Address must be aligned in 4KB", <<>>),
                         Msg("Please make sure that the page is currently mounted 1 time", <<>>)>>, 0)
            /\ PagesUnchanged
       ELSE LET pa == strtol(a[2]) IN
            IF ~pa_valid(pa)
            THEN Panics(<<Msg("pa2page called with invalid pa", <<>>)>>) /\ PagesUnchanged
            ELSE IF pp_ref[pa2page(pa)] = 1
            THEN PagesUnchanged /\ Returns(<<Msg("Page freed successfully!", <<>>)>>, 0)
            ELSE PagesUnchanged /\ Returns(<<Msg("failed", <<>>)>>, 0)
    /\ BacktraceUnchanged

\* lines 104-129
mon_free_page(n, a) ==
    /\ IF n # 2
       THEN /\ Returns(<<Msg("Usage: free page [ADDR]", <<>>),
                         Msg("Address must be aligned in 4KB", <<>>),
                         Msg("Please make sure that the page is currently mounted 1 time", <<>>)>>, 0)
            /\ PagesUnchanged
       ELSE LET pa == strtol(a[2]) IN
            IF ~pa_valid(pa)
            THEN Panics(<<Msg("pa2page called with invalid pa", <<>>)>>) /\ PagesUnchanged
            ELSE IF pp_ref[pa2page(pa)] = 1
            THEN page_decref(pa2page(pa)) /\ Returns(<<Msg("Page freed successfully!", <<>>)>>, 0)
            ELSE PagesUnchanged /\ Returns(<<Msg("failed", <<>>)>>, 0)
    /\ BacktraceUnchanged

(***************************************************************************)
(* The backtrace, lines 131-193.  A frame record at word address b holds   *)
(* the saved caller frame pointer at b, the return address at b + 1 and    *)
(* the argument words at b + 2 .. b + 6.                                   *)
(***************************************************************************)
\* the return address read_eip() finds when it has a frame of its own: an
\* address inside mon_backtrace
mon_backtrace_eip == 7

\* debuginfo_eip(addr, &info): the symbolizer's record for an address; the
\* symbol is identified by the address it was resolved from
debuginfo_eip(addr) == [eip_fn_name |-> addr, eip_line |-> addr % 10]

\* what is kept of a pass's output: its first NFrames + 1 frames; nprinted
\* counts every frame printed
Shown(seq, e) == IF Len(seq) <= NFrames THEN Append(seq, e) ELSE seq

\* J_NEXT_EBP(p)
J_NEXT_EBP(q) == stack[q]

\* J_ARG_N(p, n)
J_ARG_N(q, n) == stack[q + n]

\* lines 174-179: the frame and instruction pointers are captured and the
\* current eip is resolved into info.  read_eip() reads 4(%ebp): the return
\* address into mon_backtrace when the build gives read_eip a frame, the
\* return address of mon_backtrace's own frame when the build inlines it
mon_backtrace(n, a) ==
    /\ \E eip \in {mon_backtrace_eip, J_ARG_N(ebp, 1)} :
           /\ info' = debuginfo_eip(eip)
           /\ out' = <<Msg("current eip=%08x", HexDigits(eip))>>
    /\ p' = ebp
    /\ dumped' = <<>>
    /\ symbols' = <<>>
    /\ nprinted' = 0
    /\ ret' = ret
    /\ pc' = "dump_stack"
    /\ PagesUnchanged

\* dump_stack printing the saved caller frame pointer in place of p
dump_stack_CallerFrame(q) == [ebp |-> J_NEXT_EBP(q), eip |-> J_ARG_N(q, 1),
                              args |-> [i \in 1..5 |-> J_ARG_N(q, i + 1)]]

\* dump_stack(p), lines 143-156: what it prints
dump_stack(q) == [ebp |-> q, eip |-> J_ARG_N(q, 1),
                  args |-> [i \in 1..5 |-> J_ARG_N(q, i + 1)]]

\* dump_backstrace_symbols resolving the frame's return address before it
\* prints: lines 162 and 164 in the other order
dump_backstrace_symbols_ResolveFirst(q) ==
    [ebp |-> q, fn |-> debuginfo_eip(J_ARG_N(q, 1)).eip_fn_name,
     line |-> debuginfo_eip(J_ARG_N(q, 1)).eip_line]

\* dump_backstrace_symbols(p), lines 158-167: what it prints, which is the
\* record info holds when it is entered
dump_backstrace_symbols(q) ==
    [ebp |-> q, fn |-> info.eip_fn_name, line |-> info.eip_line]

\* one iteration of the first do-while, lines 180-183, and, when it leaves
\* the loop, lines 185-186
DumpStackStep ==
    /\ pc = "dump_stack"
    /\ dumped' = Shown(dumped, dump_stack(p))
    /\ nprinted' = (nprinted + 1) % (NFrames + 2)
    /\ IF J_NEXT_EBP(p) # 0
       THEN p' = J_NEXT_EBP(p) /\ pc' = "dump_stack"
       ELSE p' = ebp /\ pc' = "dump_symbols"
    /\ UNCHANGED <<buf, line, argc, argv, lookups, called, out, ret, pp_ref,
                   page_free_list, pre_ref, pre_free, last, stack, ebp, info, symbols>>

\* one iteration of the second do-while, lines 187-190, and, when it leaves
\* the loop, the return of line 192
DumpSymbolsStep ==
    /\ pc = "dump_symbols"
    /\ symbols' = Shown(symbols, dump_backstrace_symbols(p))
    /\ nprinted' = (nprinted + 1) % (NFrames + 2)
    /\ info' = debuginfo_eip(J_ARG_N(p, 1))
    /\ p' = J_NEXT_EBP(p)
    /\ IF J_NEXT_EBP(p) # 0
       THEN pc' = "dump_symbols" /\ ret' = ret
       ELSE pc' = "ret" /\ ret' = 0
    /\ UNCHANGED <<buf, line, argc, argv, lookups, called, out, pp_ref,
                   page_free_list, pre_ref, pre_free, last, stack, ebp, dumped>>

(***************************************************************************)
(* runcmd, lines 202-239.                                                  *)
(***************************************************************************)
RECURSIVE FindCommand(_, _)
\* the for loop of lines 233-236: the index of the first entry whose name
\* strcmp finds equal to s, searching from entry i; 0 if there is none
FindCommand(s, i) ==
    IF i > NCOMMANDS THEN 0
    ELSE IF strcmp_eq(s, commands[i].name) THEN i
    ELSE FindCommand(s, i + 1)

\* commands[i].func(argc, argv, tf)
Invoke(f, n, a) ==
    CASE f = "mon_help" -> mon_help(n, a)
      [] f = "mon_kerninfo" -> mon_kerninfo(n, a)
      [] f = "mon_alloc_page" -> mon_alloc_page(n, a)
      [] f = "mon_page_status" -> mon_page_status(n, a)
      [] f = "mon_free_page" -> mon_free_page(n, a)
      [] f = "mon_backtrace" -> mon_backtrace(n, a)

\* runcmd returns without calling a handler
NoHandler(o) ==
    /\ called' = "none"
    /\ Returns(o, 0)
    /\ PagesUnchanged /\ BacktraceUnchanged

\* the dispatch handing the handler the arguments without the command name
\* counted: func(argc - 1, argv, tf)
Dispatch_NameNotCounted(r) ==
    LET a == [k \in 1..r.argc |-> CStr(r.buf, r.argv[k])]
        i == FindCommand(a[1], 1)
    IN  IF r.argc = 0
        THEN lookups' = 0 /\ NoHandler(<<>>)
        ELSE IF i = 0
        THEN lookups' = NCOMMANDS /\ NoHandler(<<Msg("Unknown command '%s'", a[1])>>)
        ELSE /\ lookups' = i
             /\ called' = commands[i].func
             /\ Invoke(commands[i].func, r.argc - 1, a)

\* lines 230-238, for the argument vector the parse r built
Dispatch(r) ==
    LET a == [k \in 1..r.argc |-> CStr(r.buf, r.argv[k])]
        i == FindCommand(a[1], 1)
    IN  IF r.argc = 0
        THEN lookups' = 0 /\ NoHandler(<<>>)
        ELSE IF i = 0
        THEN lookups' = NCOMMANDS /\ NoHandler(<<Msg("Unknown command '%s'", a[1])>>)
        ELSE /\ lookups' = i
             /\ called' = commands[i].func
             /\ Invoke(commands[i].func, r.argc, a)

\* monitor's call runcmd(buf, tf) for a line readline returned
Runcmd ==
    /\ pc = "run"
    /\ buf # NULL
    /\ LET r == Parse(buf) IN
           /\ buf' = r.buf
           /\ argc' = r.argc
           /\ argv' = r.argv
           /\ IF r.toomany
              THEN lookups' = 0 /\ NoHandler(<<Msg("Too many arguments (max %d)", DecDigits(MAXARGS))>>)
              ELSE Dispatch(r)
    /\ UNCHANGED <<line, pre_ref, pre_free, last, stack, ebp>>

(***************************************************************************)
(* monitor, lines 241-256.                                                 *)
(***************************************************************************)
NoLast == [cmd |-> "none", text |-> <<>>]

\* what the line just run leaves for the next one to refer to: the address
\* alloc_page printed, or the address argument free_page freed
Summary ==
    IF called = "mon_alloc_page" /\ out[1].kind = "0x%x"
    THEN [cmd |-> "alloc_page", text |-> <<"0", "x">> \o out[1].text]
    ELSE IF called = "mon_free_page" /\ out[1].kind = "Page freed successfully!"
    THEN [cmd |-> "free_page", text |-> CStr(buf, argv[2])]
    ELSE NoLast

\* runcmd's locals and the per-line observations, as they are between lines
Idle ==
    /\ buf' = NULL
    /\ line' = NULL
    /\ argc' = 0
    /\ argv' = <<>>
    /\ lookups' = 0
    /\ called' = "none"
    /\ out' = <<>>
    /\ ret' = 0
    /\ pre_ref' = pp_ref
    /\ pre_free' = page_free_list
    /\ p' = 0
    /\ dumped' = <<>>
    /\ symbols' = <<>>
    /\ nprinted' = 0

\* line 251: buf = readline("K> ") returns a line of L
Readline(L) ==
    /\ pc = "read"
    /\ \E l \in L : buf' = l /\ line' = l
    /\ pc' = "run"
    /\ UNCHANGED <<argc, argv, lookups, called, out, ret, pp_ref, page_free_list,
                   pre_ref, pre_free, last, stack, ebp, p, info, dumped, symbols, nprinted>>

\* line 251 when readline returns NULL and line 252 skips runcmd: the loop
\* goes round to readline again
ReadlineNull ==
    /\ pc = "read"
    /\ buf' = NULL
    /\ line' = NULL
    /\ UNCHANGED <<pc, argc, argv, lookups, called, out, ret, pp_ref, page_free_list,
                   pre_ref, pre_free, last, stack, ebp, p, info, dumped, symbols, nprinted>>

\* the loop breaking on runcmd(buf, tf) <= 0
MonitorLoop_BreakOnZero ==
    /\ pc = "ret"
    /\ pc' = IF ret <= 0 THEN "exit" ELSE "read"
    /\ last' = Summary
    /\ Idle
    /\ UNCHANGED <<pp_ref, page_free_list, stack, ebp, info>>

\* lines 253-254: the test of runcmd's return value; break, or loop
MonitorLoop ==
    /\ pc = "ret"
    /\ pc' = IF ret < 0 THEN "exit" ELSE "read"
    /\ last' = Summary
    /\ Idle
    /\ UNCHANGED <<pp_ref, page_free_list, stack, ebp, info>>

\* panic's while (1) monitor(NULL): a fresh monitor loop starts reading
PanicMonitor ==
    /\ pc = "panic"
    /\ pc' = "read"
    /\ last' = NoLast
    /\ Idle
    /\ UNCHANGED <<pp_ref, page_free_list, stack, ebp, info>>

(***************************************************************************)
(* The lines the operator types.                                           *)
(***************************************************************************)
SP == <<" ">>

\* numerals for the address argument: the address of every managed page and
\* of the first page beyond them as alloc_page prints addresses, page 1 in
\* decimal and in octal, an unaligned address in page 1, a word that is no
\* numeral, and a negative number
AddrTexts ==
    {<<"0", "x">> \o HexDigits(page2pa(pp)) : pp \in 0..NPages}
    \cup {<<"4", "0", "9", "6">>, <<"0", "1", "0", "0", "0", "0">>,
          <<"0", "x", "1", "f", "f", "f">>, <<"x", "y", "z">>, <<"-", "1">>}

\* the example line of the tokenizer's contract
ExampleLine == <<" ", " ">> \o S_free_page \o <<" ", " ", " ", "0", "x", "1", "0", "0", "0", " ">>

\* the lines of a console session: every command, the page commands with
\* every numeral, with no argument and with two, names that differ from a
\* registered one in case or length, and blank lines
CmdLines ==
    {c.name : c \in {commands[i] : i \in 1..NCOMMANDS}}
    \cup {n \o SP \o t : n \in {S_page_status, S_free_page}, t \in AddrTexts}
    \cup {n \o SP \o <<"0", "x", "0">> \o SP \o <<"1">> : n \in {S_page_status, S_free_page}}
    \cup {S_alloc_page \o SP \o <<"x">>,
          <<"H", "e", "l", "p">>, <<"H", "E", "L", "P">>, S_help \o <<"x">>,
          <<"h", "e", "l">>, <<"f", "r", "e", "e">> \o SP \o <<"0", "x", "0">>,
          <<>>, <<" ", "\t">>, ExampleLine}

TokChars == {" ", "\t", "\r", "\n", "a", "b"}

\* every line of at most MaxLineLen characters over TokChars
ShortLines == UNION {[1..k -> TokChars] : k \in 0..MaxLineLen}

RECURSIVE WithArgs(_, _)
\* head followed by k arguments "a", one blank before each
WithArgs(head, k) == IF k = 0 THEN head ELSE WithArgs(head, k - 1) \o <<" ", "a">>

\* lines of MAXARGS - 3 to MaxTokens tokens, some led by a registered name
LongLines ==
    {WithArgs(h, k - 1) : h \in {<<"a">>, S_alloc_page}, k \in (MAXARGS - 3)..MaxTokens}

\* the tokenizer's lines, as one enumerated set
TokLines ==
    {L : L \in ShortLines \cup LongLines \cup {ExampleLine, S_help, <<"\t">> \o S_kerninfo \o <<"\n">>}}

BacktraceLines == {S_backtrace, S_backtrace \o <<" ", "1">>}

\* every line of a console session, as one enumerated set
ConsoleLines == {L : L \in CmdLines \cup BacktraceLines}

(***************************************************************************)
(* The kernel stack.  Frame records lie 8 words apart, at word addresses   *)
(* 8, 16, ..., 8 * NFrames; every other word holds its own address + 100.  *)
(***************************************************************************)
\* the stack memory in which frame k's saved frame pointer is frame link[k],
\* or 0 where link[k] = 0
StackOf(link) ==
    [a \in 0..(8 * NFrames + 7) |->
        IF a % 8 = 0 /\ a > 0 THEN 8 * link[a \div 8] ELSE a + 100]

\* every way of linking the frames, cycles included
Stacks == {StackOf(link) : link \in [1..NFrames -> 0..NFrames]}

\* the well-formed stack: each frame is called from the next, the last from none
MainStack == StackOf([k \in 1..NFrames |-> IF k < NFrames THEN k + 1 ELSE 0])

(***************************************************************************)
(* The specifications.                                                     *)
(***************************************************************************)
InitMonitor ==
    /\ pc = "read"
    /\ buf = NULL
    /\ line = NULL
    /\ argc = 0
    /\ argv = <<>>
    /\ lookups = 0
    /\ called = "none"
    /\ out = <<>>
    /\ ret = 0
    /\ last = NoLast
    /\ p = 0
    /\ info = [eip_fn_name |-> 0, eip_line |-> 0]
    /\ dumped = <<>>
    /\ symbols = <<>>
    /\ nprinted = 0

\* the monitor is entered with any reference counts; the free list holds
\* only pages nobody refers to
Init ==
    /\ InitMonitor
    /\ pp_ref \in [Pages -> 0..MaxRef]
    /\ page_free_list \in SUBSET {pp \in Pages : pp_ref[pp] = 0}
    /\ pre_ref = pp_ref
    /\ pre_free = page_free_list
    /\ stack = MainStack
    /\ ebp = 8

\* a console session
Next ==
    \/ Readline(ConsoleLines)
    \/ ReadlineNull
    \/ Runcmd
    \/ DumpStackStep
    \/ DumpSymbolsStep
    \/ MonitorLoop
    \/ PanicMonitor

Spec == Init /\ [][Next]_vars

\* the tokenizer on every short line and on long ones, all pages free
InitTok ==
    /\ InitMonitor
    /\ pp_ref = [pp \in Pages |-> 0]
    /\ page_free_list = Pages
    /\ pre_ref = pp_ref
    /\ pre_free = page_free_list
    /\ stack = MainStack
    /\ ebp = 8

NextTok ==
    \/ Readline(TokLines)
    \/ ReadlineNull
    \/ Runcmd
    \/ MonitorLoop

SpecTok == InitTok /\ [][NextTok]_vars

\* the backtrace on every stack, entered at any frame
InitBT ==
    /\ InitMonitor
    /\ pp_ref = [pp \in Pages |-> 0]
    /\ page_free_list = Pages
    /\ pre_ref = pp_ref
    /\ pre_free = page_free_list
    /\ stack \in Stacks
    /\ ebp \in {8 * k : k \in 1..NFrames}

NextBT ==
    \/ Readline(BacktraceLines)
    \/ Runcmd
    \/ DumpStackStep
    \/ DumpSymbolsStep
    \/ MonitorLoop

SpecBT == InitBT /\ [][NextBT]_vars

\* the two loops of mon_backtrace run on without waiting for anything
FairBT == SpecBT /\ WF_vars(DumpStackStep) /\ WF_vars(DumpSymbolsStep)

(***************************************************************************)
(* What the claims speak of.                                               *)
(***************************************************************************)
\* the argument strings runcmd built for this line
Tokens == [k \in 1..argc |-> CStr(buf, argv[k])]

\* runcmd has run on this line (and, for a backtrace, may still be in it)
Ran == pc \in {"ret", "panic", "dump_stack", "dump_symbols"}

\* the line was refused for its number of tokens
Rejected == Len(out) = 1 /\ out[1].kind = "Too many arguments (max %d)"

\* the page a page command addressed: the page of its parsed address argument
HasTarget == argc = 2 /\ pa_valid(strtol(Tokens[2]))
Target == pa2page(strtol(Tokens[2]))

Said(kind) == out = <<Msg(kind, <<>>)>>

\* C1: free_page on a page whose reference count is not exactly 1 reports
\* failure and leaves every page's reference count as it was before the
\* command, whatever commands came before.
C1_FreeRefusedNoMutation ==
    (Ran /\ called = "mon_free_page" /\ HasTarget /\ pre_ref[Target] # 1)
        => (pc = "ret" /\ Said("failed") /\ pp_ref = pre_ref)

\* C1 witness: a second free_page of the address the previous line freed
C1_Witness ==
    /\ pc = "ret" /\ called = "mon_free_page" /\ HasTarget
    /\ last.cmd = "free_page" /\ last.text = Tokens[2]
    /\ pre_ref[Target] = 0 /\ Said("failed")

\* C2: free_page on a page whose reference count is exactly 1 reports
\* success and brings the count to 0, and a page_status of the same address
\* on the next line reports "free".
C2_FreeThenStatusFree ==
    /\ (Ran /\ called = "mon_free_page" /\ HasTarget /\ pre_ref[Target] = 1)
           => (pc = "ret" /\ Said("Page freed successfully!") /\ pp_ref[Target] = 0)
    /\ (Ran /\ called = "mon_page_status" /\ HasTarget /\ last.cmd = "free_page"
            /\ strtol(last.text) = strtol(Tokens[2]))
           => (pc = "ret" /\ Said("free"))

\* C2 witness: page_status of an address right after free_page freed it
C2_Witness ==
    /\ pc = "ret" /\ called = "mon_page_status" /\ HasTarget
    /\ last.cmd = "free_page" /\ last.text = Tokens[2]
    /\ Target = 1 /\ Said("free")

\* C3: a successful alloc_page prints the physical address of one page and
\* has incremented that page's reference count and no other, and a
\* page_status of the printed address on the next line reports "allocated".
C3_AllocThenStatusAllocated ==
    /\ (Ran /\ called = "mon_alloc_page" /\ out[1].kind = "0x%x")
           => \E pp \in Pages :
                  /\ out = <<Msg("0x%x", HexDigits(page2pa(pp)))>>
                  /\ pp_ref = [pre_ref EXCEPT ![pp] = pre_ref[pp] + 1]
    /\ (Ran /\ called = "mon_page_status" /\ argc = 2 /\ last.cmd = "alloc_page"
            /\ Tokens[2] = last.text)
           => (pc = "ret" /\ Said("Allocated"))

\* C3 witness: page_status of the address alloc_page printed on the line before
C3_Witness ==
    /\ pc = "ret" /\ called = "mon_page_status" /\ argc = 2
    /\ last.cmd = "alloc_page" /\ Tokens[2] = last.text
    /\ Tokens[2] = <<"0", "x", "1", "0", "0", "0">> /\ Said("Allocated")

\* C4: page_status changes no reference count, whatever its arguments, and
\* for the page it addresses reports "allocated" exactly when that page's
\* reference count is greater than zero and "free" otherwise.
C4_StatusReadOnly ==
    (Ran /\ called = "mon_page_status")
        => /\ pp_ref = pre_ref
           /\ HasTarget => (pc = "ret" /\ Said(IF pre_ref[Target] > 0 THEN "Allocated" ELSE "free"))

\* C4 witness: page_status on a page with two references
C4_Witness ==
    /\ pc = "ret" /\ called = "mon_page_status" /\ HasTarget
    /\ pp_ref[Target] = 2 /\ Said("Allocated")

RECURSIVE Hop(_, _)
\* the frame pointer n links up the chain from q; 0 once the chain has ended
Hop(q, n) ==
    IF n = 0 THEN q
    ELSE LET h == Hop(q, n - 1) IN IF h = 0 THEN 0 ELSE stack[h]

\* the chain from the starting frame pointer reaches zero after exactly n hops
EndsAfter(n) == Hop(ebp, n) = 0 /\ \A k \in 0..(n - 1) : Hop(ebp, k) # 0

ChainEnds == \E n \in 1..NFrames : EndsAfter(n)

InBacktrace == called = "mon_backtrace" /\ Ran

\* the frames of a pass's output
FramesOf(pass) == [k \in 1..Len(pass) |-> pass[k].ebp]

\* C5 (safety): on a chain that reaches zero after exactly n hops, neither
\* pass ever shows more than n frames, each pass ends having shown exactly
\* the n frames of the chain in chain order, and the last frame shown is
\* the one whose saved caller frame pointer is zero.
C5_VisitsChain ==
    \A n \in 1..NFrames :
        (InBacktrace /\ EndsAfter(n)) =>
            LET chain == [k \in 1..n |-> Hop(ebp, k - 1)] IN
            /\ Len(dumped) <= n /\ Len(symbols) <= n
            /\ pc \in {"dump_symbols", "ret"} => FramesOf(dumped) = chain
            /\ pc = "ret" => (FramesOf(symbols) = chain /\ stack[chain[n]] = 0)

\* C5: the safety part in every state, and a backtrace begun on a chain
\* that reaches zero returns.
C5_BacktraceVisitsNFramesAndHalts ==
    /\ []C5_VisitsChain
    /\ (pc = "dump_stack" /\ ChainEnds) ~> (pc = "ret")

\* C5 witness: a finished backtrace of a chain of NFrames hops
C5_Witness ==
    /\ pc = "ret" /\ called = "mon_backtrace" /\ EndsAfter(NFrames)
    /\ Len(dumped) = NFrames /\ FramesOf(symbols) = FramesOf(dumped)

\* C6: a backtrace, once begun, returns, whatever the frame chain, cyclic
\* chains included.
C6_BacktraceAlwaysReturns == (pc = "dump_stack") ~> (pc = "ret")

(***************************************************************************)
(* The tokens of a line, read off the line itself.                         *)
(***************************************************************************)
IsSpace(c) == c \in {" ", "\t", "\r", "\n"}

\* where a maximal run of non-whitespace characters starts
RunStarts(l) == {i \in 1..Len(l) : ~IsSpace(l[i]) /\ (i = 1 \/ IsSpace(l[i - 1]))}

\* where the run starting at i ends
RunEnd(l, i) ==
    CHOOSE j \in i..Len(l) :
        /\ \A k \in i..j : ~IsSpace(l[k])
        /\ j = Len(l) \/ IsSpace(l[j + 1])

\* the maximal runs of non-whitespace characters of l, left to right
Runs(l) ==
    LET starts == RunStarts(l)
        nth(k) == CHOOSE i \in starts : Cardinality({j \in starts : j < i}) = k - 1
    IN  [k \in 1..Cardinality(starts) |-> SubSeq(l, nth(k), RunEnd(l, nth(k)))]

NumRuns(l) == Cardinality(RunStarts(l))

\* C7: for a line that is not refused for its number of tokens, the
\* argument vector is exactly the sequence of the line's maximal runs of
\* non-whitespace characters, in order, and argc is their number.
C7_TokensAreMaximalRuns ==
    (Ran /\ ~Rejected) => (Tokens = Runs(line) /\ argc = NumRuns(line))

\* C7 witness: the contract's example line and its two tokens
C7_Witness ==
    /\ pc = "ret" /\ line = ExampleLine
    /\ Tokens = <<S_free_page, <<"0", "x", "1", "0", "0", "0">>>>

\* C8: a line of more than MAXARGS tokens is refused with the message that
\* reports MAXARGS; no registry comparison is made, no handler runs, no
\* reference count changes, and runcmd returns 0, on which monitor reads on.
C8_TooManyTokensRefused ==
    /\ (Ran /\ NumRuns(line) > MAXARGS)
           => /\ pc = "ret"
              /\ out = <<Msg("Too many arguments (max %d)", <<"1", "6">>)>>
              /\ lookups = 0 /\ called = "none"
              /\ pp_ref = pre_ref /\ ret = 0
    /\ pc # "exit"

\* C8 witness: a refused line of MAXARGS + 1 tokens that names a command
C8_Witness ==
    /\ pc = "ret" /\ NumRuns(line) = MAXARGS + 1 /\ Runs(line)[1] = S_alloc_page
    /\ Rejected

\* C9: an empty line and a line of whitespace only give zero tokens;
\* nothing is printed, no registry comparison is made, no handler runs, and
\* runcmd returns 0, on which monitor reads on.
C9_BlankLineIsNoOp ==
    /\ (Ran /\ \A i \in 1..Len(line) : IsSpace(line[i]))
           => /\ pc = "ret"
              /\ argc = 0 /\ out = <<>>
              /\ lookups = 0 /\ called = "none"
              /\ pp_ref = pre_ref /\ ret = 0
    /\ pc # "exit"

\* C9 witness: a line of MaxLineLen whitespace characters, not all the same
C9_Witness ==
    /\ pc = "ret" /\ Len(line) = MaxLineLen
    /\ \A i \in 1..Len(line) : IsSpace(line[i])
    /\ line[1] # line[2] /\ argc = 0

RegistryNames == {commands[i].name : i \in 1..NCOMMANDS}

\* C10: when the first token is no registry name, exactly and with case
\* significant, exactly one "unknown command" message is printed, naming
\* the token; no handler runs, no reference count changes, and runcmd
\* returns 0, on which monitor reads on.
C10_UnknownCommand ==
    /\ (Ran /\ ~Rejected /\ argc >= 1 /\ Runs(line)[1] \notin RegistryNames)
           => /\ pc = "ret"
              /\ out = <<Msg("Unknown command '%s'", Runs(line)[1])>>
              /\ called = "none"
              /\ pp_ref = pre_ref /\ ret = 0
    /\ pc # "exit"

\* C10 witness: a registered name with its first letter in upper case
C10_Witness ==
    /\ pc = "ret" /\ line = <<"H", "e", "l", "p">>
    /\ out = <<Msg("Unknown command '%s'", <<"H", "e", "l", "p">>)>>

\* the first message of a handler's usage text
SaidUsage == Len(out) >= 1 /\ out[1].kind \in {"Usage: page status [ADDR]", "Usage: free page [ADDR]"}

\* C11: each page command invoked with the wrong number of arguments
\* (alloc_page with any argument, page_status and free_page without exactly
\* one) prints a usage message, returns 0 and changes no reference count.
C11_WrongArityNoMutation ==
    (Ran /\ \/ called = "mon_alloc_page" /\ argc # 1
            \/ called \in {"mon_page_status", "mon_free_page"} /\ argc # 2)
        => (pc = "ret" /\ ret = 0 /\ SaidUsage /\ pp_ref = pre_ref)

\* the first registry entry, in registry order, named s
FirstEntry(s) ==
    CHOOSE i \in 1..NCOMMANDS :
        commands[i].name = s /\ \A j \in 1..(i - 1) : commands[j].name # s

\* C12: when the first token is a registry name, the handler invoked is
\* that of the first registry entry with exactly that name, reached after
\* comparing the entries before it and no entry after it; the handler gets
\* the whole argument vector with the command name counted (so the page
\* commands print usage exactly when the line has not two tokens), and
\* what runcmd returns is what the handler returned, 0.
C12_DispatchFirstMatch ==
    (Ran /\ ~Rejected /\ argc >= 1 /\ Runs(line)[1] \in RegistryNames)
        => /\ called = commands[FirstEntry(Runs(line)[1])].func
           /\ lookups = FirstEntry(Runs(line)[1])
           /\ called \in {"mon_page_status", "mon_free_page"} => (SaidUsage <=> NumRuns(line) # 2)
           /\ pc = "ret" => ret = 0

\* C12 witness: free_page, the fifth entry, called with its one argument
C12_Witness ==
    /\ pc = "ret" /\ called = "mon_free_page" /\ lookups = 5
    /\ NumRuns(line) = 2 /\ ~SaidUsage

\* C13: monitor leaves its loop only in the step that follows a handler's
\* negative return value; after runcmd returned zero or more (a handler's
\* zero, an unknown command, too many arguments, a blank line) the next
\* step reads a line, and so does the step after a null line or a panic.
C13_ExitOnlyOnNegativeReturn ==
    [][ /\ (pc' = "exit" /\ pc # "exit") => (pc = "ret" /\ called # "none" /\ ret < 0)
        /\ (pc = "ret" /\ ret >= 0) => pc' = "read"
        /\ pc = "read" => pc' \in {"read", "run"}
        /\ pc = "panic" => pc' = "read" ]_vars

\* C13 witness: the loop is reading again after a handler returned 0
C13_Witness == pc = "read" /\ last.cmd = "alloc_page" /\ ret = 0

\* s is a well-formed numeral: an optional sign, then "0x" and hexadecimal
\* digits, or "0" and octal digits, or decimal digits, and nothing else
IsNumeral(s) ==
    LET body == IF Len(s) >= 1 /\ s[1] \in {"+", "-"} THEN Tail(s) ELSE s
        AllBelow(t, base) == \A i \in 1..Len(t) : DigitVal(t[i]) < base
    IN  \/ Len(body) >= 3 /\ body[1] = "0" /\ body[2] = "x" /\ AllBelow(SubSeq(body, 3, Len(body)), 16)
        \/ Len(body) >= 1 /\ body[1] = "0" /\ AllBelow(body, 8)
        \/ Len(body) >= 1 /\ body[1] # "0" /\ AllBelow(body, 10)

\* the handler looked a page up and reported on it
ReportedOnPage ==
    \/ Said("Allocated") \/ Said("free")
    \/ Said("Page freed successfully!") \/ Said("failed")

\* C14: page_status and free_page given an address argument that is no
\* well-formed numeral do not treat it as an address: no page is reported
\* on and no reference count changes.
C14_MalformedNumeralRefused ==
    (Ran /\ called \in {"mon_page_status", "mon_free_page"} /\ argc = 2
         /\ ~IsNumeral(Runs(line)[2]))
        => (~ReportedOnPage /\ pp_ref = pre_ref)

\* the symbol the symbol pass printed for its k-th frame
PrintedSymbol(k) == [eip_fn_name |-> symbols[k].fn, eip_line |-> symbols[k].line]

\* the return address the dump pass prints as eip for the frame at q
ReturnAddress(q) == stack[q + 1]

\* the address mon_backtrace printed as "current eip"
CurrentEip == strtol(<<"0", "x">> \o out[1].text)

\* C15 as claimed: the symbol printed for the k-th frame is the symbolizer's
\* result for that frame's own return address.
C15_SymbolOfOwnReturnAddress ==
    InBacktrace =>
        \A k \in 1..Len(symbols) :
            PrintedSymbol(k) = debuginfo_eip(ReturnAddress(symbols[k].ebp))

\* C15 as amended: the symbol printed for the first frame is the
\* symbolizer's result for the current eip mon_backtrace printed, and the
\* symbol printed for each later frame is the result for the return
\* address stored in the frame before it; the result for the last frame's
\* return address is left in info, unprinted.
C15_SymbolOfInstructionInFrame ==
    InBacktrace =>
        /\ \A k \in 1..Len(symbols) :
               PrintedSymbol(k) = debuginfo_eip(IF k = 1 THEN CurrentEip
                                                ELSE ReturnAddress(symbols[k - 1].ebp))
        /\ (pc = "ret" /\ ChainEnds) =>
               info = debuginfo_eip(ReturnAddress(symbols[Len(symbols)].ebp))

\* C15 witness: a finished backtrace of NFrames frames whose second symbol
\* is that of the first frame's return address
C15_Witness ==
    /\ pc = "ret" /\ called = "mon_backtrace" /\ Len(symbols) = NFrames
    /\ PrintedSymbol(2) = debuginfo_eip(ReturnAddress(symbols[1].ebp))
    /\ PrintedSymbol(1) = debuginfo_eip(CurrentEip)

\* C16: a line of at least one and at most MAXARGS tokens, the maximum the
\* message reports, is not refused: it is tokenized in full and reaches the
\* registry lookup.
C16_UpToMaxargsTokensAccepted ==
    (Ran /\ NumRuns(line) >= 1 /\ NumRuns(line) <= MAXARGS)
        => (~Rejected /\ argc = NumRuns(line) /\ lookups >= 1)

\* C17: page_status and free_page given a well-formed address that resolves
\* to no page descriptor report the failure, change no reference count and
\* return 0 to monitor, which reads the next line.
C17_UnresolvableAddressReturns ==
    (Ran /\ called \in {"mon_page_status", "mon_free_page"} /\ argc = 2
         /\ IsNumeral(Runs(line)[2]) /\ ~pa_valid(strtol(Runs(line)[2])))
        => (pc = "ret" /\ ret = 0 /\ Len(out) = 1 /\ ~ReportedOnPage /\ pp_ref = pre_ref)

\* C18: alloc_page when the allocator has no free page prints the failure
\* message and no address, changes no reference count and returns 0.
C18_AllocExhausted ==
    (Ran /\ called = "mon_alloc_page" /\ pre_free = {})
        => /\ pc = "ret" /\ ret = 0
           /\ Said("Page allocation failed")
           /\ pp_ref = pre_ref /\ page_free_list = {}

\* C18 witness: alloc_page fails right after an alloc_page took the last
\* free page
C18_Witness ==
    /\ pc = "ret" /\ called = "mon_alloc_page" /\ pre_free = {}
    /\ last.cmd = "alloc_page" /\ Said("Page allocation failed")

\* the pages whose reference count this line's command has changed
Changed == {pp \in Pages : pp_ref[pp] # pre_ref[pp]}

\* C19: no reference count ever wraps below zero (the uint16_t counter never
\* holds the 65535 a decrement of 0 leaves), and the command of a line
\* changes the count of at most one page, by exactly one, a decrement only
\* from a count of at least one.
C19_CountsNeverUnderflow ==
    /\ \A pp \in Pages : pp_ref[pp] >= 0 /\ pp_ref[pp] < 65535
    /\ Cardinality(Changed) <= 1
    /\ \A pp \in Changed :
           \/ pp_ref[pp] = pre_ref[pp] + 1
           \/ pp_ref[pp] = pre_ref[pp] - 1 /\ pre_ref[pp] >= 1

\* C19 witness: free_page has taken the one reference of a page while the
\* other pages kept theirs
C19_Witness ==
    /\ pc = "ret" /\ called = "mon_free_page" /\ HasTarget
    /\ Changed = {Target} /\ pre_ref[Target] = 1 /\ pp_ref[Target] = 0

\* C20: whatever the line, argc never exceeds MAXARGS - 1, the entries
\* written into argv (argv[0] up to the terminating null) fit its MAXARGS
\* slots, and when a handler is invoked argv[argc] is the null pointer and
\* every entry before it points into the buffer.
C20_ArgvWithinBounds ==
    Ran => /\ argc <= MAXARGS - 1
           /\ Len(argv) <= MAXARGS
           /\ called # "none" =>
                  /\ Len(argv) = argc + 1
                  /\ argv[argc + 1] = 0
                  /\ \A k \in 1..argc : argv[k] \in 1..Len(buf)

\* C20 witness: a handler invoked with MAXARGS - 1 arguments, the null in
\* the last slot of argv
C20_Witness ==
    /\ pc = "ret" /\ called = "mon_alloc_page" /\ argc = MAXARGS - 1
    /\ Len(argv) = MAXARGS /\ argv[MAXARGS] = 0

====
